---- MODULE Spec2Model ----
(***************************************************************************)
(* Investments dashboard of Dons-Website: the generic polling Table        *)
(* (Table.js) and the portfolio History Chart (PortfolioGraph.jsx) as      *)
(* state machines.  Each widget owns its state; the two never share any.   *)
(*                                                                         *)
(* Strings that the code inspects character by character (cell values,     *)
(* the search term) are sequences of one-character strings; strings the    *)
(* code only stores and shows (error messages) are TLA+ strings.           *)
(***************************************************************************)
EXTENDS Integers, Sequences, FiniteSets, TLC

VARIABLES
    \* ---- Table.js: React state of one Table instance
    data,           \* useState([])  : the rows held
    loading,        \* useState(true)
    error,          \* useState("")
    searchTerm,     \* useState("")
    currentPage,    \* useState(1)
    \* ---- Table.js: the fetch effect and the network
    fetchUrl,       \* the fetchUrl prop
    tablePhase,     \* "rendered" (effect not run yet) | "live" | "unmounted"
    tableInflight,  \* fetches awaiting their response: [seq, showLoading, mounted]
    tableIssued,    \* number of fetches issued so far (issue order)
    \* ---- history of the run, read by the properties only
    tableLast,      \* the last Table event: [op, seq, resp, mounted]
    tableNewest,    \* greatest issue number among the array responses applied
    \* ---- PortfolioGraph.jsx: React state of one PortfolioGraph instance
    history,            \* useState([])
    portfolioValue,     \* useState(0)
    change,             \* useState(0)
    timeframe,          \* useState(TIMEFRAMES[0])
    yDomain,            \* useState([0, "auto"])
    graphLoading,       \* useState(false)  (`loading` in PortfolioGraph)
    hoveredValue,       \* useState(null): <<>> is null, <<v>> a value
    hoveredChange,      \* useState(null)
    tooltip,            \* the chart's tooltip: 0 inactive, i on history[i]
    \* ---- PortfolioGraph.jsx: refs, timers, storage and the network
    abortControllerRef, \* id of the controller held, 0 for null
    debounceRef,        \* the 50 ms timer: [pending, tf, spinner]
    localStorage,       \* cache key -> [present, data, timestamp]
    now,                \* Date.now()
    graphPhase,         \* "rendered" (effect not run yet) | "live" | "unmounted"
    graphInflight,      \* requests awaiting their end: [id, tf, spinner, aborted]
    graphIssued,        \* number of requests issued so far
    \* ---- history of the run, read by the properties only
    graphLast,          \* the last PortfolioGraph event
    \* ---- PortfolioDiversityChart.jsx: React state of one instance
    slices,             \* useState([])
    total,              \* useState(0)
    pieLoading,         \* useState(true)  (`loading` in the chart)
    pieError,           \* useState("")    (`error` in the chart)
    activeIndex,        \* useState(null): NullIndex is null
    isHovering,         \* useState(false)
    isPressing,         \* useState(false)
    \* ---- PortfolioDiversityChart.jsx: ref, timer, listeners and the network
    previousDataRef,    \* useRef(null): <<>> is null, <<d>> holds d
    pieInterval,        \* the setInterval(load, pollInterval) is armed
    pieListeners,       \* handleGlobalUp is registered on the window
    piePhase,           \* "rendered" (effects not run yet) | "live" | "unmounted"
    pieInflight,        \* numbers of the fetches awaiting their response
    pieIssued,          \* number of fetches issued so far
    \* ---- history of the run, read by the properties only
    pieOp,              \* the last step of the chart
    pieLast,            \* the last response settled: [seq, resp, processed, output, committed]
    \* ---- the pure functions, called on their own
    domainCall,         \* the last call of getNiceDomain: [called, min, max, result]
    historyCall,        \* the last call of processHistoryData: [called, data, result]
    positionsCall       \* the last call of processPositions: [called, positions, result]

tableVars == <<data, loading, error, searchTerm, currentPage, fetchUrl,
               tablePhase, tableInflight, tableIssued, tableLast, tableNewest>>

graphVars == <<history, portfolioValue, change, timeframe, yDomain, graphLoading,
               tooltip, hoveredValue, hoveredChange, abortControllerRef, debounceRef,
               localStorage, now, graphPhase, graphInflight, graphIssued, graphLast>>

pieVars == <<slices, total, pieLoading, pieError, activeIndex, isHovering,
             isPressing, previousDataRef, pieInterval, pieListeners, piePhase,
             pieInflight, pieIssued, pieOp, pieLast>>

vars == <<data, loading, error, searchTerm, currentPage, fetchUrl,
          tablePhase, tableInflight, tableIssued, tableLast, tableNewest,
          history, portfolioValue, change, timeframe, yDomain, graphLoading,
          tooltip, hoveredValue, hoveredChange, abortControllerRef, debounceRef,
          localStorage, now, graphPhase, graphInflight, graphIssued, graphLast,
          slices, total, pieLoading, pieError, activeIndex, isHovering,
          isPressing, previousDataRef, pieInterval, pieListeners, piePhase,
          pieInflight, pieIssued, pieOp, pieLast,
          domainCall, historyCall, positionsCall>>

\* What the steps of one widget leave alone.
nonTableVars == <<graphVars, pieVars, domainCall, historyCall, positionsCall>>
nonGraphVars == <<tableVars, pieVars, domainCall, historyCall, positionsCall>>
nonPieVars == <<tableVars, graphVars, domainCall, historyCall, positionsCall>>
nonCallVars == <<tableVars, graphVars, pieVars>>

(***************************************************************************)
(* Bounds of the model.                                                    *)
(***************************************************************************)
MaxTableFetches == 3    \* fetches one Table instance issues in a run
SmallRows == 3          \* sizes of the arrays the backend may return
MaxRows == 25
MaxGraphFetches == 2    \* requests one PortfolioGraph instance issues in a run
NumTimeframes == 2      \* how many of the TIMEFRAMES the user selects among
MaxDomainValue == 12    \* getNiceDomain is called on -12..12 times a scale
MaxPoints == 3          \* points of a history processHistoryData is called on
MaxStamp == 3           \* their timestamps are 1..MaxStamp
MaxPieFetches == 3      \* fetches one PortfolioDiversityChart issues in a run
MaxHoldings == 3        \* holdings of a portfolio processPositions is called on

(***************************************************************************)
(* Table.js                                                                *)
(***************************************************************************)
rowsPerPage == 10

Null == <<"null">>      \* a JSON null cell (no one-character string)

\* The fetchUrl the Table is given, and one a parent may change it to.
Urls == {"/api/portfolio", "/api/portfolio/trades"}

columns == <<"ticker", "name">>

\* The i-th row the backend returns: `id` is not a displayed column.
Row(i) ==
    [id |-> i,
     ticker |-> IF i % 2 = 1 THEN <<"A", "b">> ELSE <<"c">>,
     name |-> IF i % 3 = 0 THEN Null ELSE <<"B">>]

Rows(n) == [i \in 1..n |-> Row(i)]

NoRows == Rows(0)

ArrayResp(n) == [kind |-> "array", rows |-> Rows(n), error |-> ""]
ObjectResp(e) == [kind |-> "object", rows |-> NoRows, error |-> e]
\* JSON null, a number, a string: neither an array nor an object with `error`.
OtherResp == [kind |-> "other", rows |-> NoRows, error |-> ""]
\* fetch() rejected or res.json() threw.
ThrowResp == [kind |-> "throw", rows |-> NoRows, error |-> ""]
NoResp == [kind |-> "none", rows |-> NoRows, error |-> ""]

\* What a fetch can end in.  ObjectResp("") is an object without a truthy
\* `error` ({} or {error: ""}).
TableResponses ==
    {ArrayResp(n) : n \in {0, SmallRows, MaxRows}}
        \cup {ObjectResp("rate limited"), ObjectResp(""), OtherResp, ThrowResp}

SearchTerms == {<<>>, <<"B">>, <<"z">>}

\* String.prototype.toLowerCase on the model's alphabet.
LowerChar(c) == CASE c = "A" -> "a" [] c = "B" -> "b" [] OTHER -> c

toLowerCase(s) == [i \in 1..Len(s) |-> LowerChar(s[i])]

\* String.prototype.includes
includes(s, t) ==
    \E i \in 0..(Len(s) - Len(t)) : SubSeq(s, i + 1, i + Len(t)) = t

\* String(v ?? "")
CellString(v) == IF v = Null THEN <<>> ELSE v

RowMatches(row, term) ==
    \E c \in 1..Len(columns) :
        includes(toLowerCase(CellString(row[columns[c]])), toLowerCase(term))

RECURSIVE FilterRows(_, _)
FilterRows(rows, term) ==
    IF rows = <<>> THEN <<>>
    ELSE IF RowMatches(Head(rows), term)
         THEN <<Head(rows)>> \o FilterRows(Tail(rows), term)
         ELSE FilterRows(Tail(rows), term)

filteredData == FilterRows(data, searchTerm)

CeilDiv(n, d) == (n + d - 1) \div d

Max2(a, b) == IF a >= b THEN a ELSE b
Min2(a, b) == IF a <= b THEN a ELSE b

totalPages == Max2(1, CeilDiv(Len(filteredData), rowsPerPage))

\* Array.prototype.slice(begin, end) with 0 <= begin <= end
slice(s, begin, end) == SubSeq(s, begin + 1, Min2(end, Len(s)))

\* Mutant of paginatedData: the slice starts one page too far.
paginatedDataShifted ==
    slice(filteredData, currentPage * rowsPerPage, (currentPage + 1) * rowsPerPage)

paginatedData ==
    slice(filteredData, (currentPage - 1) * rowsPerPage, currentPage * rowsPerPage)

\* ---- what the Table renders (the JSX of Table.js)

BodyLoader == [kind |-> "loader", text |-> "", row |-> Row(0)]
BodyMessage == [kind |-> "message", text |-> "Failed to fetch data", row |-> Row(0)]
BodyRow(row) == [kind |-> "row", text |-> "", row |-> row]
BodyPad == [kind |-> "pad", text |-> "", row |-> Row(0)]

\* The <tbody>: one entry per <tr>.
TableBody ==
    IF loading THEN <<BodyLoader>>
    ELSE IF error # "" \/ Len(data) = 0 THEN <<BodyMessage>>
    ELSE LET page == paginatedData
         IN [i \in 1..rowsPerPage |->
                IF i <= Len(page) THEN BodyRow(page[i]) ELSE BodyPad]

PrevDisabled == currentPage = 1
NextDisabled == currentPage = totalPages \/ totalPages = 0

\* ---- the operations of the Table

TableEvent(op, seq, resp, mounted) ==
    [op |-> op, seq |-> seq, resp |-> resp, mounted |-> mounted]

TableRequest(seq, showLoading) ==
    [seq |-> seq, showLoading |-> showLoading, mounted |-> TRUE]

\* The effect's cleanup sets the closure's `mounted` to false: every fetch that
\* closure issued sees it.
Unmounted(reqs) == {[r EXCEPT !.mounted = FALSE] : r \in reqs}

\* First run of the effects after the first render: fetchData(true), the
\* interval, and the search effect's setCurrentPage(1).
TableRunEffect ==
    /\ tablePhase = "rendered"
    /\ tablePhase' = "live"
    /\ loading' = TRUE
    /\ tableIssued' = tableIssued + 1
    /\ tableInflight' = tableInflight \cup {TableRequest(tableIssued + 1, TRUE)}
    /\ currentPage' = 1
    /\ tableLast' = TableEvent("effect", tableIssued + 1, NoResp, TRUE)
    /\ UNCHANGED <<data, error, searchTerm, fetchUrl, tableNewest>>

\* Mutant of TableIntervalTick: the interval calls fetchData(true).
TableIntervalTickShowsLoading ==
    /\ tablePhase = "live"
    /\ tableIssued < MaxTableFetches
    /\ loading' = TRUE
    /\ tableIssued' = tableIssued + 1
    /\ tableInflight' = tableInflight \cup {TableRequest(tableIssued + 1, TRUE)}
    /\ tableLast' = TableEvent("tick", tableIssued + 1, NoResp, TRUE)
    /\ UNCHANGED <<data, error, searchTerm, currentPage, fetchUrl,
                   tablePhase, tableNewest>>

\* setInterval(() => fetchData(false), 30000)
TableIntervalTick ==
    /\ tablePhase = "live"
    /\ tableIssued < MaxTableFetches
    /\ tableIssued' = tableIssued + 1
    /\ tableInflight' = tableInflight \cup {TableRequest(tableIssued + 1, FALSE)}
    /\ tableLast' = TableEvent("tick", tableIssued + 1, NoResp, TRUE)
    /\ UNCHANGED <<data, loading, error, searchTerm, currentPage, fetchUrl,
                   tablePhase, tableNewest>>

\* Mutant of TableDeliver: a response older than one already applied is dropped.
TableDeliverNewestOnly(r, resp) ==
    /\ r \in tableInflight
    /\ tableInflight' = tableInflight \ {r}
    /\ IF ~r.mounted \/ r.seq < tableNewest.seq
       THEN UNCHANGED <<data, error>>
       ELSE IF resp.kind = "array"
       THEN data' = resp.rows /\ error' = ""
       ELSE IF resp.kind = "object" /\ resp.error # ""
       THEN error' = resp.error /\ data' = NoRows
       ELSE IF resp.kind = "throw"
       THEN error' = "Failed to fetch data." /\ data' = NoRows
       ELSE error' = "Unexpected response from server." /\ data' = NoRows
    /\ loading' = IF r.mounted /\ r.showLoading THEN FALSE ELSE loading
    /\ tableNewest' =
           IF r.mounted /\ resp.kind = "array" /\ r.seq > tableNewest.seq
           THEN [seq |-> r.seq, rows |-> resp.rows]
           ELSE tableNewest
    /\ tableLast' = TableEvent("deliver", r.seq, resp, r.mounted)
    /\ UNCHANGED <<searchTerm, currentPage, fetchUrl, tablePhase, tableIssued>>

\* Mutant of TableDeliver: the error branches do not clear the data.
TableDeliverKeepsData(r, resp) ==
    /\ r \in tableInflight
    /\ tableInflight' = tableInflight \ {r}
    /\ IF ~r.mounted
       THEN UNCHANGED <<data, error>>
       ELSE IF resp.kind = "array"
       THEN data' = resp.rows /\ error' = ""
       ELSE IF resp.kind = "object" /\ resp.error # ""
       THEN error' = resp.error /\ data' = data
       ELSE IF resp.kind = "throw"
       THEN error' = "Failed to fetch data." /\ data' = data
       ELSE error' = "Unexpected response from server." /\ data' = data
    /\ loading' = IF r.mounted /\ r.showLoading THEN FALSE ELSE loading
    /\ tableNewest' =
           IF r.mounted /\ resp.kind = "array" /\ r.seq > tableNewest.seq
           THEN [seq |-> r.seq, rows |-> resp.rows]
           ELSE tableNewest
    /\ tableLast' = TableEvent("deliver", r.seq, resp, r.mounted)
    /\ UNCHANGED <<searchTerm, currentPage, fetchUrl, tablePhase, tableIssued>>

\* Mutant of TableDeliver: the finally clause does not test `mounted`.
TableDeliverClearsLoading(r, resp) ==
    /\ r \in tableInflight
    /\ tableInflight' = tableInflight \ {r}
    /\ IF ~r.mounted
       THEN UNCHANGED <<data, error>>
       ELSE IF resp.kind = "array"
       THEN data' = resp.rows /\ error' = ""
       ELSE IF resp.kind = "object" /\ resp.error # ""
       THEN error' = resp.error /\ data' = NoRows
       ELSE IF resp.kind = "throw"
       THEN error' = "Failed to fetch data." /\ data' = NoRows
       ELSE error' = "Unexpected response from server." /\ data' = NoRows
    /\ loading' = IF r.showLoading THEN FALSE ELSE loading
    /\ tableNewest' =
           IF r.mounted /\ resp.kind = "array" /\ r.seq > tableNewest.seq
           THEN [seq |-> r.seq, rows |-> resp.rows]
           ELSE tableNewest
    /\ tableLast' = TableEvent("deliver", r.seq, resp, r.mounted)
    /\ UNCHANGED <<searchTerm, currentPage, fetchUrl, tablePhase, tableIssued>>

\* fetchData after its awaits: the response `resp` of fetch `r` arrives (or the
\* fetch fails), then the try / catch / finally of fetchData.
TableDeliver(r, resp) ==
    /\ r \in tableInflight
    /\ tableInflight' = tableInflight \ {r}
    /\ IF ~r.mounted
       THEN UNCHANGED <<data, error>>
       ELSE IF resp.kind = "array"
       THEN data' = resp.rows /\ error' = ""
       ELSE IF resp.kind = "object" /\ resp.error # ""
       THEN error' = resp.error /\ data' = NoRows
       ELSE IF resp.kind = "throw"
       THEN error' = "Failed to fetch data." /\ data' = NoRows
       ELSE error' = "Unexpected response from server." /\ data' = NoRows
    /\ loading' = IF r.mounted /\ r.showLoading THEN FALSE ELSE loading
    /\ tableNewest' =
           IF r.mounted /\ resp.kind = "array" /\ r.seq > tableNewest.seq
           THEN [seq |-> r.seq, rows |-> resp.rows]
           ELSE tableNewest
    /\ tableLast' = TableEvent("deliver", r.seq, resp, r.mounted)
    /\ UNCHANGED <<searchTerm, currentPage, fetchUrl, tablePhase, tableIssued>>

\* SearchBar's setSearchTerm, and the effect on [searchTerm]: setCurrentPage(1).
SetSearchTerm(term) ==
    /\ tablePhase = "live"
    /\ term # searchTerm
    /\ searchTerm' = term
    /\ currentPage' = 1
    /\ tableLast' = TableEvent("search", 0, NoResp, TRUE)
    /\ UNCHANGED <<data, loading, error, fetchUrl, tablePhase, tableInflight,
                   tableIssued, tableNewest>>

\* The "previous" button: disabled={currentPage === 1}.
PrevPage ==
    /\ tablePhase = "live"
    /\ ~PrevDisabled
    /\ currentPage' = Max2(1, currentPage - 1)
    /\ tableLast' = TableEvent("prev", 0, NoResp, TRUE)
    /\ UNCHANGED <<data, loading, error, searchTerm, fetchUrl, tablePhase,
                   tableInflight, tableIssued, tableNewest>>

\* Mutant of NextPage: neither the disabled attribute nor the Math.min clamp.
NextPageUnclamped ==
    /\ tablePhase = "live"
    /\ currentPage' = currentPage + 1
    /\ tableLast' = TableEvent("next", 0, NoResp, TRUE)
    /\ UNCHANGED <<data, loading, error, searchTerm, fetchUrl, tablePhase,
                   tableInflight, tableIssued, tableNewest>>

\* The "next" button: disabled={currentPage === totalPages || totalPages === 0}.
NextPage ==
    /\ tablePhase = "live"
    /\ ~NextDisabled
    /\ currentPage' = Min2(totalPages, currentPage + 1)
    /\ tableLast' = TableEvent("next", 0, NoResp, TRUE)
    /\ UNCHANGED <<data, loading, error, searchTerm, fetchUrl, tablePhase,
                   tableInflight, tableIssued, tableNewest>>

\* The fetchUrl prop changes: the cleanup of the old effect, then the effect
\* again (fetchData(true) and a new interval).
ChangeUrl(u) ==
    /\ tablePhase = "live"
    /\ u # fetchUrl
    /\ tableIssued < MaxTableFetches
    /\ fetchUrl' = u
    /\ loading' = TRUE
    /\ tableIssued' = tableIssued + 1
    /\ tableInflight' =
           Unmounted(tableInflight) \cup {TableRequest(tableIssued + 1, TRUE)}
    /\ tableLast' = TableEvent("url", tableIssued + 1, NoResp, TRUE)
    /\ UNCHANGED <<data, error, searchTerm, currentPage, tablePhase, tableNewest>>

\* The Table unmounts: the cleanup of the effect.
TableUnmount ==
    /\ tablePhase = "live"
    /\ tablePhase' = "unmounted"
    /\ tableInflight' = Unmounted(tableInflight)
    /\ tableLast' = TableEvent("unmount", 0, NoResp, FALSE)
    /\ UNCHANGED <<data, loading, error, searchTerm, currentPage, fetchUrl,
                   tableIssued, tableNewest>>

TableInit ==
    /\ data = NoRows
    /\ loading = TRUE
    /\ error = ""
    /\ searchTerm = <<>>
    /\ currentPage = 1
    /\ fetchUrl = "/api/portfolio"
    /\ tablePhase = "rendered"
    /\ tableInflight = {}
    /\ tableIssued = 0
    /\ tableLast = TableEvent("init", 0, NoResp, TRUE)
    /\ tableNewest = [seq |-> 0, rows |-> NoRows]

(***************************************************************************)
(* PortfolioGraph.jsx                                                      *)
(*                                                                         *)
(* Money is counted in thousandths of a dollar and time in milliseconds.   *)
(* A click's setTimeframe, the cleanup of the old effect and the new        *)
(* effect are one step: React commits them before the next timer or         *)
(* response is handled.  hoveredValue and hoveredChange are written by      *)
(* handleTooltipHover only.                                                 *)
(***************************************************************************)
TIMEFRAMES ==
    << [label |-> "1D", span |-> "day", interval |-> "5minute"],
       [label |-> "1W", span |-> "week", interval |-> "hour"],
       [label |-> "1M", span |-> "month", interval |-> "hour"],
       [label |-> "3M", span |-> "3month", interval |-> "day"],
       [label |-> "1Y", span |-> "year", interval |-> "day"],
       [label |-> "5Y", span |-> "5year", interval |-> "day"] >>

\* The timeframes whose buttons the user presses in the model.
Selectable == {TIMEFRAMES[i] : i \in 1..Min2(NumTimeframes, Len(TIMEFRAMES))}

\* `portfolio_history_${tf.span}_${tf.interval}`
getCacheKey(tf) == <<"portfolio_history", tf.span, tf.interval>>

CacheKeys == {getCacheKey(TIMEFRAMES[i]) : i \in 1..Len(TIMEFRAMES)}

\* The instants at which the model reads the clock: 0, 1, 2 and 6 minutes.
ClockInstants == <<0, 60000, 120000, 360000>>

\* One raw point of the response: an ISO timestamp (here its second) and a value.
Point(ts, mv) == [timestamp |-> ts, market_value |-> mv]

\* new Date(iso).getTime()
DateGetTime(ts) == ts * 1000

HistoryArray(points) == [kind |-> "array", points |-> points, error |-> ""]
HistoryObject(e) == [kind |-> "object", points |-> <<>>, error |-> e]
HistoryThrow == [kind |-> "throw", points |-> <<>>, error |-> ""]
HistoryNone == [kind |-> "none", points |-> <<>>, error |-> ""]
\* A stored string that JSON.parse rejects.
HistoryUnparsable == [kind |-> "unparsable", points |-> <<>>, error |-> ""]

\* 100, 110, 90 dollars, arriving out of order.
SeriesLoss == <<Point(2, 110000), Point(1, 100000), Point(3, 90000)>>
SeriesOne == <<Point(1, 100000)>>

\* What a history request can end in when it is not aborted.
HistoryResponses ==
    {HistoryArray(SeriesLoss), HistoryArray(SeriesOne), HistoryArray(<<>>),
     HistoryObject("rate limited"), HistoryThrow}

FloorDiv(a, d) == a \div d

RECURSIVE Magnitude(_, _)
\* Math.pow(10, Math.floor(Math.log10(range / 4))) for range >= 4: the greatest
\* power of ten m, from `m` on, with 4 * m <= range.
Magnitude(range, m) ==
    IF 4 * (m * 10) <= range THEN Magnitude(range, m * 10) ELSE m

\* Math.round(q) for q = a / d, d > 0: the nearest integer, halves upwards.
RoundDiv(a, d) == FloorDiv(a, d) + (IF 2 * (a % d) >= d THEN 1 ELSE 0)

\* Mutant of getNiceDomain: both bounds snap to the nearest multiple of the step.
getNiceDomainNearest(min, max) ==
    IF min = max
    THEN [lo |-> FloorDiv(min, 1000) * 1000, hi |-> CeilDiv(max, 1000) * 1000,
          den |-> 1, auto |-> FALSE]
    ELSE LET den == IF max - min < 4 THEN 10 ELSE 1
             range == (max - min) * den
             magnitude == Magnitude(range, 1)
             niceStep == CeilDiv(range, 4 * magnitude) * magnitude
         IN [lo |-> RoundDiv(min * den, niceStep) * niceStep,
             hi |-> RoundDiv(max * den, niceStep) * niceStep,
             den |-> den, auto |-> FALSE]

\* getNiceDomain(min, max) with ticks = 5, on whole numbers (the chart passes
\* thousandths of a dollar).  The bounds are lo / den and hi / den: a range
\* below 4 has a step of tenths (magnitude 0.1), so its bounds are in tenths.
\* Math.floor / Math.ceil of the min === max branch round to whole dollars.
getNiceDomain(min, max) ==
    IF min = max
    THEN [lo |-> FloorDiv(min, 1000) * 1000, hi |-> CeilDiv(max, 1000) * 1000,
          den |-> 1, auto |-> FALSE]
    ELSE LET den == IF max - min < 4 THEN 10 ELSE 1
             range == (max - min) * den
             magnitude == Magnitude(range, 1)
             niceStep == CeilDiv(range, 4 * magnitude) * magnitude
         IN [lo |-> FloorDiv(min * den, niceStep) * niceStep,
             hi |-> CeilDiv(max * den, niceStep) * niceStep,
             den |-> den, auto |-> FALSE]

\* [0, "auto"]
AutoDomain == [lo |-> 0, hi |-> 0, den |-> 1, auto |-> TRUE]

RECURSIVE InsertByTimestamp(_, _)
InsertByTimestamp(sorted, p) ==
    IF sorted = <<>> THEN <<p>>
    ELSE IF Head(sorted).timestamp <= p.timestamp
         THEN <<Head(sorted)>> \o InsertByTimestamp(Tail(sorted), p)
         ELSE <<p>> \o sorted

RECURSIVE SortByTimestamp(_)
\* .sort((a, b) => a.timestamp - b.timestamp): stable, ascending.
SortByTimestamp(points) ==
    IF points = <<>> THEN <<>>
    ELSE InsertByTimestamp(SortByTimestamp(SubSeq(points, 1, Len(points) - 1)),
                           points[Len(points)])

SeqMin(vals) == CHOOSE v \in {vals[i] : i \in 1..Len(vals)} :
                    \A i \in 1..Len(vals) : v <= vals[i]
SeqMax(vals) == CHOOSE v \in {vals[i] : i \in 1..Len(vals)} :
                    \A i \in 1..Len(vals) : v >= vals[i]

\* Number(x.toFixed(2)): to the nearest cent, the sign kept apart.
ToFixed2(x) ==
    IF x >= 0 THEN FloorDiv(x + 5, 10) * 10 ELSE 0 - FloorDiv((0 - x) + 5, 10) * 10

\* Mutant of processHistoryData: the points are left in their order of arrival.
processHistoryDataUnsorted(resp) ==
    IF resp.kind # "array" \/ Len(resp.points) = 0
    THEN [history |-> <<>>, yDomain |-> AutoDomain, portfolioValue |-> 0, change |-> 0]
    ELSE LET formatted ==
                 [i \in 1..Len(resp.points) |->
                     [timestamp |-> DateGetTime(resp.points[i].timestamp),
                      market_value |-> resp.points[i].market_value]]
             values == [i \in 1..Len(formatted) |-> formatted[i].market_value]
             latest == formatted[Len(formatted)].market_value
             prev == formatted[1].market_value
         IN [history |-> formatted,
             yDomain |-> getNiceDomain(SeqMin(values), SeqMax(values)),
             portfolioValue |-> latest,
             change |-> ToFixed2(latest - prev)]

\* processHistoryData(data): the four setState calls, as the values they set.
processHistoryData(resp) ==
    IF resp.kind # "array" \/ Len(resp.points) = 0
    THEN [history |-> <<>>, yDomain |-> AutoDomain, portfolioValue |-> 0, change |-> 0]
    ELSE LET formatted ==
                 SortByTimestamp(
                     [i \in 1..Len(resp.points) |->
                         [timestamp |-> DateGetTime(resp.points[i].timestamp),
                          market_value |-> resp.points[i].market_value]])
             values == [i \in 1..Len(formatted) |-> formatted[i].market_value]
             latest == formatted[Len(formatted)].market_value
             prev == formatted[1].market_value
         IN [history |-> formatted,
             yDomain |-> getNiceDomain(SeqMin(values), SeqMax(values)),
             portfolioValue |-> latest,
             change |-> ToFixed2(latest - prev)]

\* The displayed state as a record, in the shape processHistoryData sets it.
Displayed ==
    [history |-> history, yDomain |-> yDomain,
     portfolioValue |-> portfolioValue, change |-> change]

\* handleTooltipHover(value) for the value of point i of `hist`, as the
\* effect of CustomTooltip calls it while the tooltip is on that point.
Hovering(i, hist) ==
    /\ tooltip' = i
    /\ hoveredValue' = <<hist[i].market_value>>
    /\ hoveredChange' = <<hist[i].market_value - hist[1].market_value>>

\* handleTooltipHover(null), or a value while the series is empty.
NotHovering ==
    /\ tooltip' = 0
    /\ hoveredValue' = <<>>
    /\ hoveredChange' = <<>>

\* The render after the series became `next`: an active tooltip moves to the
\* point of the new series under the pointer, whichever that is, and the
\* effect of CustomTooltip reports it; over an empty series it has no payload.
Retarget(next) ==
    IF tooltip = 0 \/ next = history
    THEN UNCHANGED <<tooltip, hoveredValue, hoveredChange>>
    ELSE IF next = <<>>
         THEN NotHovering
         ELSE \E i \in 1..Len(next) : Hovering(i, next)

SetDisplayed(d) ==
    /\ history' = d.history
    /\ yDomain' = d.yDomain
    /\ portfolioValue' = d.portfolioValue
    /\ change' = d.change
    /\ Retarget(d.history)

NoEntry == [present |-> FALSE, data |-> HistoryNone, timestamp |-> 0]

\* JSON.stringify({ data, timestamp }) under a key.
CacheEntry(resp, ts) == [present |-> TRUE, data |-> resp, timestamp |-> ts]

\* Mutant of AfterCacheCheck: an entry as old as the ttl is still used.
AfterCacheCheckInclusive(tf, ttl, shown) ==
    LET cached == localStorage[getCacheKey(tf)]
    IN IF /\ cached.present
          /\ cached.data.kind # "unparsable"
          /\ now - cached.timestamp <= ttl
       THEN processHistoryData(cached.data)
       ELSE shown

\* The cache check of a call site: what is displayed after it.  An entry is
\* used when it exists, JSON.parse accepts it and Date.now() - timestamp < ttl.
AfterCacheCheck(tf, ttl, shown) ==
    LET cached == localStorage[getCacheKey(tf)]
    IN IF /\ cached.present
          /\ cached.data.kind # "unparsable"
          /\ now - cached.timestamp < ttl
       THEN processHistoryData(cached.data)
       ELSE shown

\* ---- what the PortfolioGraph renders (the JSX of PortfolioGraph.jsx)

displayValue == IF hoveredValue # <<>> THEN hoveredValue[1] ELSE portfolioValue
displayChange == IF hoveredChange # <<>> THEN hoveredChange[1] ELSE change

Abs(x) == IF x >= 0 THEN x ELSE 0 - x

\* ((dc / hist[0].market_value) * 100).toFixed(2), or "0.00" without a point:
\* a number of hundredths of a percent, to the nearest one with the sign kept
\* apart; or the text toFixed gives for a division by zero.
percentChangeOf(dc, hist) ==
    IF Len(hist) = 0 THEN [text |-> "number", hundredths |-> 0]
    ELSE LET first == hist[1].market_value
         IN IF first = 0
            THEN [text |-> IF dc = 0 THEN "NaN"
                           ELSE IF dc > 0 THEN "Infinity" ELSE "-Infinity",
                  hundredths |-> 0]
            ELSE [text |-> "number",
                  hundredths |->
                      (IF (dc >= 0) = (first > 0) THEN 1 ELSE 0 - 1)
                          * RoundDiv(Abs(dc) * 10000, Abs(first))]

percentChange == percentChangeOf(displayChange, history)

\* The trend of the series: a gain needs two points at least.
isGain ==
    /\ Len(history) > 1
    /\ history[Len(history)].market_value >= history[1].market_value

\* <Area stroke=... fill=...>: the colour of the line and of the fill under it.
AreaStroke == IF isGain THEN "#16a34a" ELSE "#dc2626"
AreaFill == IF isGain THEN "#16a34a33" ELSE "#dc262633"

\* className of the change in the header.
ChangeClass == IF displayChange >= 0 THEN "gain" ELSE "loss"

\* The strings among the text nodes: the labels of the timeframe buttons.  The
\* other text nodes are the numbers displayValue, displayChange and the percent.
GraphTexts == {TIMEFRAMES[i].label : i \in 1..Len(TIMEFRAMES)}

\* ---- the operations of the PortfolioGraph

\* `tf` is the timeframe of the request, `selected` the one selected just then.
\* `logged` tells whether the step called console.error.
GraphEvent(op, id, tf, selected, resp) ==
    [op |-> op, id |-> id, tf |-> tf, selected |-> selected, resp |-> resp,
     logged |-> FALSE]

GraphRequest(id, tf, spinner) ==
    [id |-> id, tf |-> tf, spinner |-> spinner, aborted |-> FALSE]

\* controller.abort(): the fetch (or res.json()) of that controller's request,
\* if still awaited, rejects with an AbortError.
Abort(reqs, id) ==
    {IF r.id = id THEN [r EXCEPT !.aborted = TRUE] ELSE r : r \in reqs}

\* A promise rejected by abort() is handled before the next timer, click or
\* response: nothing else runs while such a rejection is queued.
RejectionQueued == \E r \in graphInflight : r.aborted

\* The body of the effect on [timeframe], run for `tf`: the 5-minute cache
\* check, then the 50 ms timer that will call fetchHistory(tf, !cached).
EffectBody(tf) ==
    /\ SetDisplayed(AfterCacheCheck(tf, 300000, Displayed))
    /\ debounceRef' =
           [pending |-> TRUE, tf |-> tf,
            spinner |-> ~localStorage[getCacheKey(tf)].present]

\* Mutant of StartFetch: the previous controller is not aborted.
StartFetchNoAbort(tf, spinner) ==
    /\ graphIssued < MaxGraphFetches
    /\ abortControllerRef' = graphIssued + 1
    /\ graphIssued' = graphIssued + 1
    /\ graphInflight' = graphInflight \cup {GraphRequest(graphIssued + 1, tf, spinner)}
    /\ SetDisplayed(IF spinner THEN Displayed
                    ELSE AfterCacheCheck(tf, 120000, Displayed))
    /\ graphLoading' = IF spinner THEN TRUE ELSE graphLoading

\* fetchHistory(tf, showLoadingSpinner) up to its first await: abort the
\* previous controller, the 2-minute cache check, setLoading(true), fetch().
StartFetch(tf, spinner) ==
    /\ graphIssued < MaxGraphFetches
    /\ abortControllerRef' = graphIssued + 1
    /\ graphIssued' = graphIssued + 1
    /\ graphInflight' =
           Abort(graphInflight, abortControllerRef)
               \cup {GraphRequest(graphIssued + 1, tf, spinner)}
    /\ SetDisplayed(IF spinner THEN Displayed
                    ELSE AfterCacheCheck(tf, 120000, Displayed))
    /\ graphLoading' = IF spinner THEN TRUE ELSE graphLoading

\* First run of the effect after the first render.
GraphRunEffect ==
    /\ graphPhase = "rendered"
    /\ graphPhase' = "live"
    /\ EffectBody(timeframe)
    /\ graphLast' = GraphEvent("effect", 0, timeframe, timeframe, HistoryNone)
    /\ UNCHANGED <<timeframe, graphLoading, 
                   abortControllerRef, localStorage, now, graphInflight, graphIssued>>

\* Mutant of SelectTimeframe: the cleanup does not abort the request in flight.
SelectTimeframeNoAbort(tf) ==
    /\ graphPhase = "live"
    /\ ~RejectionQueued
    /\ tf # timeframe
    /\ timeframe' = tf
    /\ EffectBody(tf)
    /\ graphLast' = GraphEvent("select", 0, tf, tf, HistoryNone)
    /\ UNCHANGED <<graphLoading, abortControllerRef,
                   localStorage, now, graphPhase, graphInflight, graphIssued>>

\* Mutant of SelectTimeframe: the effect calls fetchHistory at once, without
\* the 50 ms timer.
SelectTimeframeImmediate(tf) ==
    /\ graphPhase = "live"
    /\ ~RejectionQueued
    /\ tf # timeframe
    /\ graphIssued < MaxGraphFetches
    /\ timeframe' = tf
    /\ abortControllerRef' = graphIssued + 1
    /\ graphIssued' = graphIssued + 1
    /\ graphInflight' =
           Abort(graphInflight, abortControllerRef)
               \cup {GraphRequest(graphIssued + 1, tf,
                                  ~localStorage[getCacheKey(tf)].present)}
    /\ SetDisplayed(AfterCacheCheck(tf, 300000, Displayed))
    /\ debounceRef' = [debounceRef EXCEPT !.pending = FALSE]
    /\ graphLoading' = IF ~localStorage[getCacheKey(tf)].present THEN TRUE
                       ELSE graphLoading
    /\ graphLast' = GraphEvent("select", 0, tf, tf, HistoryNone)
    /\ UNCHANGED <<localStorage, now, graphPhase>>

\* A timeframe button: setTimeframe(tf), then the cleanup of the old effect
\* (clearTimeout, clearInterval, abort) and the effect for tf.
SelectTimeframe(tf) ==
    /\ graphPhase = "live"
    /\ ~RejectionQueued
    /\ tf # timeframe
    /\ timeframe' = tf
    /\ graphInflight' = Abort(graphInflight, abortControllerRef)
    /\ EffectBody(tf)
    /\ graphLast' = GraphEvent("select", 0, tf, tf, HistoryNone)
    /\ UNCHANGED <<graphLoading, abortControllerRef,
                   localStorage, now, graphPhase, graphIssued>>

\* The 50 ms timer fires: fetchHistory(timeframe, !cached).
GraphDebounceFire ==
    /\ graphPhase = "live"
    /\ ~RejectionQueued
    /\ debounceRef.pending
    /\ debounceRef' = [debounceRef EXCEPT !.pending = FALSE]
    /\ StartFetch(debounceRef.tf, debounceRef.spinner)
    /\ graphLast' = GraphEvent("debounce", graphIssued + 1, debounceRef.tf, timeframe, HistoryNone)
    /\ UNCHANGED <<timeframe, localStorage, now,
                   graphPhase>>

\* The 30 s interval fires: fetchHistory(timeframe, false).  It was set together
\* with the 50 ms timer, so it fires after it.
GraphIntervalTick ==
    /\ graphPhase = "live"
    /\ ~RejectionQueued
    /\ ~debounceRef.pending
    /\ StartFetch(timeframe, FALSE)
    /\ graphLast' = GraphEvent("tick", graphIssued + 1, timeframe, timeframe, HistoryNone)
    /\ UNCHANGED <<timeframe, debounceRef,
                   localStorage, now, graphPhase>>

\* Mutant of GraphAbortSettle: the request ignores the signal, its response is
\* stored and processed.
GraphAbortSettleApplies(r) ==
    /\ r \in graphInflight
    /\ r.aborted
    /\ graphInflight' = graphInflight \ {r}
    /\ localStorage' =
           [localStorage EXCEPT ![getCacheKey(r.tf)] =
               CacheEntry(HistoryArray(SeriesOne), now)]
    /\ SetDisplayed(processHistoryData(HistoryArray(SeriesOne)))
    /\ graphLoading' = FALSE
    /\ graphLast' = GraphEvent("aborted", r.id, r.tf, timeframe, HistoryNone)
    /\ UNCHANGED <<timeframe, abortControllerRef,
                   debounceRef, now, graphPhase, graphIssued>>

\* Mutant of GraphAbortSettle: the loading indicator is left as it was.
GraphAbortSettleKeepsLoading(r) ==
    /\ r \in graphInflight
    /\ r.aborted
    /\ graphInflight' = graphInflight \ {r}
    /\ graphLast' = GraphEvent("aborted", r.id, r.tf, timeframe, HistoryNone)
    /\ UNCHANGED <<history, portfolioValue, change, timeframe, yDomain, graphLoading,
                   tooltip, hoveredValue, hoveredChange, abortControllerRef, debounceRef,
                   localStorage, now, graphPhase, graphIssued>>

\* fetchHistory after its await, for an aborted request: the AbortError is
\* caught and not logged, finally setLoading(false).
GraphAbortSettle(r) ==
    /\ r \in graphInflight
    /\ r.aborted
    /\ graphInflight' = graphInflight \ {r}
    /\ graphLoading' = FALSE
    /\ graphLast' = GraphEvent("aborted", r.id, r.tf, timeframe, HistoryNone)
    /\ UNCHANGED <<history, portfolioValue, change, timeframe, yDomain,
                   tooltip, hoveredValue, hoveredChange, abortControllerRef, debounceRef,
                   localStorage, now, graphPhase, graphIssued>>

\* Mutant of GraphDeliver: the response is stored under the key of the first
\* timeframe.
GraphDeliverFirstKey(r, resp) ==
    /\ r \in graphInflight
    /\ ~r.aborted
    /\ ~RejectionQueued
    /\ graphInflight' = graphInflight \ {r}
    /\ IF resp.kind = "throw"
       THEN UNCHANGED <<history, portfolioValue, change, yDomain, localStorage,
                         tooltip, hoveredValue, hoveredChange>>
       ELSE /\ localStorage' =
                   [localStorage EXCEPT ![getCacheKey(TIMEFRAMES[1])] =
                       CacheEntry(resp, now)]
            /\ SetDisplayed(processHistoryData(resp))
    /\ graphLoading' = FALSE
    /\ graphLast' = [GraphEvent("deliver", r.id, r.tf, timeframe, resp)
                         EXCEPT !.logged = (resp.kind = "throw")]
    /\ UNCHANGED <<timeframe, abortControllerRef,
                   debounceRef, now, graphPhase, graphIssued>>

\* fetchHistory after its awaits, for a request not aborted: the response is
\* stored in the cache and processed, or the failure is logged; finally
\* setLoading(false).
GraphDeliver(r, resp) ==
    /\ r \in graphInflight
    /\ ~r.aborted
    /\ ~RejectionQueued
    /\ graphInflight' = graphInflight \ {r}
    /\ IF resp.kind = "throw"
       THEN UNCHANGED <<history, portfolioValue, change, yDomain, localStorage,
                         tooltip, hoveredValue, hoveredChange>>
       ELSE /\ localStorage' =
                   [localStorage EXCEPT ![getCacheKey(r.tf)] = CacheEntry(resp, now)]
            /\ SetDisplayed(processHistoryData(resp))
    /\ graphLoading' = FALSE
    /\ graphLast' = [GraphEvent("deliver", r.id, r.tf, timeframe, resp)
                         EXCEPT !.logged = (resp.kind = "throw")]
    /\ UNCHANGED <<timeframe, abortControllerRef,
                   debounceRef, now, graphPhase, graphIssued>>

\* Mutant of GraphHoverExit: the hovered change is left as it was.
GraphHoverExitKeepsChange ==
    /\ graphPhase = "live"
    /\ ~RejectionQueued
    /\ tooltip # 0
    /\ tooltip' = 0
    /\ hoveredValue' = <<>>
    /\ graphLast' = GraphEvent("leave", 0, timeframe, timeframe, HistoryNone)
    /\ UNCHANGED <<history, portfolioValue, change, timeframe, yDomain,
                   graphLoading, hoveredChange, abortControllerRef, debounceRef,
                   localStorage, now, graphPhase, graphInflight, graphIssued>>

\* The pointer comes onto point i of the chart: the tooltip turns active and
\* the effect of CustomTooltip calls onHover(payload[0].value).
GraphHover(i) ==
    /\ graphPhase = "live"
    /\ ~RejectionQueued
    /\ i \in 1..Len(history)
    /\ i # tooltip
    /\ Hovering(i, history)
    /\ graphLast' = GraphEvent("hover", i, timeframe, timeframe, HistoryNone)
    /\ UNCHANGED <<history, portfolioValue, change, timeframe, yDomain,
                   graphLoading, abortControllerRef, debounceRef,
                   localStorage, now, graphPhase, graphInflight, graphIssued>>

\* The pointer leaves the chart: the tooltip turns inactive and the effect of
\* CustomTooltip calls onHover(null).
GraphHoverExit ==
    /\ graphPhase = "live"
    /\ ~RejectionQueued
    /\ tooltip # 0
    /\ NotHovering
    /\ graphLast' = GraphEvent("leave", 0, timeframe, timeframe, HistoryNone)
    /\ UNCHANGED <<history, portfolioValue, change, timeframe, yDomain,
                   graphLoading, abortControllerRef, debounceRef,
                   localStorage, now, graphPhase, graphInflight, graphIssued>>

\* Time passes.
GraphClockAdvance ==
    /\ ~RejectionQueued
    /\ \E i \in 1..(Len(ClockInstants) - 1) :
           now = ClockInstants[i] /\ now' = ClockInstants[i + 1]
    /\ graphLast' = GraphEvent("clock", 0, timeframe, timeframe, HistoryNone)
    /\ UNCHANGED <<history, portfolioValue, change, timeframe, yDomain,
                   graphLoading, tooltip, hoveredValue, hoveredChange, abortControllerRef,
                   debounceRef, localStorage, graphPhase, graphInflight, graphIssued>>

\* The PortfolioGraph unmounts: the cleanup of the effect.
GraphUnmount ==
    /\ graphPhase = "live"
    /\ ~RejectionQueued
    /\ graphPhase' = "unmounted"
    /\ debounceRef' = [debounceRef EXCEPT !.pending = FALSE]
    /\ graphInflight' = Abort(graphInflight, abortControllerRef)
    /\ graphLast' = GraphEvent("unmount", 0, timeframe, timeframe, HistoryNone)
    /\ UNCHANGED <<history, portfolioValue, change, timeframe, yDomain,
                   graphLoading, tooltip, hoveredValue, hoveredChange, abortControllerRef,
                   localStorage, now, graphIssued>>

\* The PortfolioGraph as constructed, over the storage an earlier visit left.
GraphInitOver(storage) ==
    /\ history = <<>>
    /\ portfolioValue = 0
    /\ change = 0
    /\ timeframe = TIMEFRAMES[1]
    /\ yDomain = AutoDomain
    /\ graphLoading = FALSE
    /\ hoveredValue = <<>>
    /\ hoveredChange = <<>>
    /\ tooltip = 0
    /\ abortControllerRef = 0
    /\ debounceRef = [pending |-> FALSE, tf |-> TIMEFRAMES[1], spinner |-> FALSE]
    /\ localStorage = storage
    /\ now = ClockInstants[1]
    /\ graphPhase = "rendered"
    /\ graphInflight = {}
    /\ graphIssued = 0
    /\ graphLast = GraphEvent("init", 0, TIMEFRAMES[1], TIMEFRAMES[1], HistoryNone)

\* The first visit: nothing is stored.
GraphInit == GraphInitOver([k \in CacheKeys |-> NoEntry])

\* What an earlier visit may have left under the key of the first timeframe:
\* nothing, a response stored at the instant 0, or a string that does not parse.
StoredEntries ==
    {NoEntry, CacheEntry(HistoryArray(SeriesOne), 0), CacheEntry(HistoryUnparsable, 0)}

GraphInitStored ==
    \E entry \in StoredEntries :
        GraphInitOver([k \in CacheKeys |->
                          IF k = getCacheKey(TIMEFRAMES[1]) THEN entry ELSE NoEntry])

(***************************************************************************)
(* PortfolioDiversityChart.jsx: processPositions.  Money is in thousandths *)
(* of a dollar, as in the PortfolioGraph.                                  *)
(***************************************************************************)
\* The othersThreshold prop, 0.02 by default, in hundredths.
othersThreshold == 2

\* One row of the response.  A market_value of 0 makes the code fall back on
\* quantity * current_price.
Position(ticker, mv, quantity, price) ==
    [ticker |-> ticker, market_value |-> mv, quantity |-> quantity,
     current_price |-> price]

\* positions.map(...): the value of each holding, rounded to whole cents.
Normalize(p) ==
    LET mv == IF p.market_value # 0 THEN p.market_value
              ELSE p.quantity * p.current_price
    IN [ticker |-> p.ticker, market_value |-> ToFixed2(mv)]

RECURSIVE SumValues(_)
\* reduce((s, x) => s + x.market_value, 0)
SumValues(items) ==
    IF items = <<>> THEN 0
    ELSE items[1].market_value + SumValues(Tail(items))

RECURSIVE InsertByValue(_, _)
InsertByValue(sorted, p) ==
    IF sorted = <<>> THEN <<p>>
    ELSE IF Head(sorted).market_value >= p.market_value
         THEN <<Head(sorted)>> \o InsertByValue(Tail(sorted), p)
         ELSE <<p>> \o sorted

\* Mutant of SortByValue: the holdings stay in the order of the response.
SortByValueSkipped(items) == items

RECURSIVE SortByValue(_)
\* .sort((a, b) => b.market_value - a.market_value): stable, descending.
SortByValue(items) ==
    IF items = <<>> THEN <<>>
    ELSE InsertByValue(SortByValue(SubSeq(items, 1, Len(items) - 1)),
                       items[Len(items)])

\* Mutant of BelowThreshold: a holding exactly at the threshold is merged too.
AtOrBelowThreshold(value, totalValue) == value * 100 <= othersThreshold * totalValue

\* pct < othersThreshold for pct = value / totalValue, totalValue > 0.
BelowThreshold(value, totalValue) == value * 100 < othersThreshold * totalValue

RECURSIVE MainSlices(_, _, _)
\* The forEach over the sorted holdings, from index idx (counted from 0) on:
\* the slices pushed for the holdings at or above the threshold.
MainSlices(sorted, idx, totalValue) ==
    IF idx >= Len(sorted) THEN <<>>
    ELSE LET item == sorted[idx + 1]
         IN (IF BelowThreshold(item.market_value, totalValue) THEN <<>>
             ELSE << [name |-> item.ticker, value |-> item.market_value,
                      rawPct |-> [num |-> item.market_value, den |-> totalValue],
                      rank |-> idx, isOther |-> FALSE] >>)
                \o MainSlices(sorted, idx + 1, totalValue)

RECURSIVE OtherValue(_, _)
\* The same forEach: the sum of the holdings below the threshold.
OtherValue(sorted, totalValue) ==
    IF sorted = <<>> THEN 0
    ELSE (IF BelowThreshold(sorted[1].market_value, totalValue)
          THEN sorted[1].market_value ELSE 0)
             + OtherValue(Tail(sorted), totalValue)

\* processPositions(positions) while previousDataRef.current is null: the
\* slices and the total it sets.
processPositions(positions) ==
    LET normalized == [i \in 1..Len(positions) |-> Normalize(positions[i])]
        totalValue == SumValues(normalized)
    IN IF totalValue = 0
       THEN [slices |-> <<>>, total |-> 0]
       ELSE LET sorted == SortByValue(normalized)
                main == MainSlices(sorted, 0, totalValue)
                otherValue == OtherValue(sorted, totalValue)
            IN [slices |->
                    IF otherValue > 0
                    THEN Append(main,
                                [name |-> "Other", value |-> ToFixed2(otherValue),
                                 rawPct |-> [num |-> otherValue, den |-> totalValue],
                                 rank |-> Len(main), isOther |-> TRUE])
                    ELSE main,
                total |-> ToFixed2(totalValue)]

(***************************************************************************)
(* PortfolioDiversityChart.jsx: the component.  A handler reads the state  *)
(* of the latest render, and React drops the state updates of a component  *)
(* that has unmounted.                                                     *)
(***************************************************************************)
\* activeIndex === null.
NullIndex == 0 - 1

\* The portfolios the backend answers with: two holdings, the smaller one at
\* exactly the threshold; one holding; one holding that rounds to no value.
PieTwo == <<Position(<<"T", 1>>, 1000, 0, 0), Position(<<"T", 2>>, 49000, 0, 0)>>
PieOne == <<Position(<<"T", 1>>, 10004, 0, 0)>>
PieNoValue == <<Position(<<"T", 1>>, 4, 0, 0)>>

PieResponse(kind, positions, message) ==
    [kind |-> kind, positions |-> positions, error |-> message]

\* What `await fetch` and `await res.json()` give: a bare array, an object
\* { data: [...] }, an object { error }, any other object, or a failure
\* (network, status not ok, body not JSON).
PieResponses ==
    {PieResponse("array", p, "") : p \in {PieTwo, PieOne, PieNoValue}}
        \cup {PieResponse("wrapped", p, "") : p \in {PieOne, PieNoValue}}
        \cup {PieResponse("error", <<>>, "Server error"),
              PieResponse("object", <<>>, ""),
              PieResponse("throw", <<>>, "")}

\* processPositions(positions) with previousDataRef.current = ref: the output
\* it aggregates, whether it calls setSlices and setTotal, and the ref after.
\* setSlices([]) passes a new array, which React takes as a change.
commitPositions(positions, ref) ==
    LET output == processPositions(positions)
        normalized == [i \in 1..Len(positions) |-> Normalize(positions[i])]
    IN IF SumValues(normalized) = 0
       THEN [output |-> output, committed |-> TRUE, ref |-> ref]
       ELSE [output |-> output, committed |-> ref # <<output>>, ref |-> <<output>>]

\* The render after `if (loading)` and `if (error || !slices || ...)`.
ChartRendered == ~pieLoading /\ pieError = "" /\ Len(slices) > 0

\* The text of the chart-empty div, "" when the chart is rendered instead.
ChartEmptyText ==
    IF pieLoading THEN "Loading..."
    ELSE IF pieError # "" THEN pieError
    ELSE IF Len(slices) = 0 THEN "No holdings to display"
    ELSE ""

\* activeSlice && (isHovering || isPressing), in the rendered chart.
CenterOverlayShown ==
    /\ ChartRendered
    /\ activeIndex # NullIndex
    /\ activeIndex < Len(slices)
    /\ (isHovering \/ isPressing)

\* load(): fetch(fetchUrl) is sent.
PieStartFetch ==
    /\ pieIssued < MaxPieFetches
    /\ pieIssued' = pieIssued + 1
    /\ pieInflight' = pieInflight \cup {pieIssued + 1}

\* The two effects of the first render: load(), setInterval(load, ...) and the
\* four window listeners.
PieRunEffect ==
    /\ piePhase = "rendered"
    /\ piePhase' = "live"
    /\ PieStartFetch
    /\ pieInterval' = TRUE
    /\ pieListeners' = TRUE
    /\ pieOp' = "mount"
    /\ UNCHANGED <<slices, total, pieLoading, pieError, activeIndex, isHovering,
                   isPressing, previousDataRef, pieLast>>

\* The interval fires: load().
PieIntervalTick ==
    /\ pieInterval
    /\ PieStartFetch
    /\ pieOp' = "tick"
    /\ UNCHANGED <<slices, total, pieLoading, pieError, activeIndex, isHovering,
                   isPressing, previousDataRef, pieInterval, pieListeners,
                   piePhase, pieLast>>

\* load() after its awaits: the response `resp` of fetch `seq` arrives (or the
\* fetch fails), then the try / catch / finally of load.
PieDeliver(seq, resp) ==
    /\ seq \in pieInflight
    /\ pieInflight' = pieInflight \ {seq}
    /\ LET c == commitPositions(resp.positions, previousDataRef)
           processed == resp.kind \in {"array", "wrapped"}
           mounted == piePhase = "live"
       IN /\ previousDataRef' = IF processed THEN c.ref ELSE previousDataRef
          /\ IF mounted /\ processed /\ c.committed
             THEN slices' = c.output.slices /\ total' = c.output.total
             ELSE UNCHANGED <<slices, total>>
          /\ pieError' =
                 IF ~mounted \/ resp.kind = "wrapped" THEN pieError
                 ELSE IF resp.kind = "array" THEN ""
                 ELSE IF resp.kind = "error" THEN resp.error
                 ELSE IF resp.kind = "object" THEN "Unexpected response from server."
                 ELSE "Failed to fetch portfolio."
          /\ pieLoading' = IF mounted THEN FALSE ELSE pieLoading
          /\ pieLast' = [seq |-> seq, resp |-> resp, processed |-> processed,
                         output |-> IF processed THEN c.output
                                    ELSE processPositions(<<>>),
                         committed |-> processed /\ c.committed]
    /\ pieOp' = "deliver"
    /\ UNCHANGED <<activeIndex, isHovering, isPressing, pieInterval, pieListeners,
                   piePhase, pieIssued>>

\* The handlers of the chart leave the data and the network alone.
PieInteraction(op) ==
    /\ pieOp' = op
    /\ UNCHANGED <<slices, total, pieLoading, pieError, previousDataRef,
                   pieInterval, pieListeners, piePhase, pieInflight, pieIssued,
                   pieLast>>

\* A Cell of the rendered chart receives an event.
CellRendered(index) ==
    /\ piePhase = "live"
    /\ ChartRendered
    /\ index \in 0..(Len(slices) - 1)

\* onMouseEnter / onPointerEnter of the Cell `index`.
onCellEnter(index) ==
    /\ CellRendered(index)
    /\ activeIndex' = index
    /\ isHovering' = TRUE
    /\ UNCHANGED isPressing
    /\ PieInteraction("enter")

\* Mutant of onCellLeave: the index is cleared during a press too.
onCellLeaveClears(index) ==
    /\ CellRendered(index)
    /\ isHovering' = FALSE
    /\ activeIndex' = NullIndex
    /\ UNCHANGED isPressing
    /\ PieInteraction("leave")

\* onMouseLeave / onPointerLeave of the Cell `index`.
onCellLeave(index) ==
    /\ CellRendered(index)
    /\ isHovering' = FALSE
    /\ activeIndex' = IF ~isPressing THEN NullIndex ELSE activeIndex
    /\ UNCHANGED isPressing
    /\ PieInteraction("leave")

\* onMouseDown / onTouchStart of the Cell `index`.
onCellPressStart(index) ==
    /\ CellRendered(index)
    /\ activeIndex' = index
    /\ isPressing' = TRUE
    /\ UNCHANGED isHovering
    /\ PieInteraction("pressStart")

\* onMouseUp / onTouchEnd / onTouchCancel of the Cell `index`.
onCellPressEnd(index) ==
    /\ CellRendered(index)
    /\ isPressing' = FALSE
    /\ activeIndex' = IF ~isHovering THEN NullIndex ELSE activeIndex
    /\ UNCHANGED isHovering
    /\ PieInteraction("pressEnd")

\* onMouseLeave / onTouchCancel of the chart's container.
handleContainerLeave ==
    /\ piePhase = "live"
    /\ ChartRendered
    /\ isHovering' = FALSE
    /\ isPressing' = FALSE
    /\ activeIndex' = NullIndex
    /\ PieInteraction("containerLeave")

\* Mutant of handleGlobalUp: the index is cleared while hovering too.
handleGlobalUpClears ==
    /\ pieListeners
    /\ isPressing' = FALSE
    /\ activeIndex' = NullIndex
    /\ UNCHANGED isHovering
    /\ PieInteraction("globalUp")

\* pointerup, touchend, touchcancel or click on the window.
handleGlobalUp ==
    /\ pieListeners
    /\ isPressing' = FALSE
    /\ activeIndex' = IF ~isHovering THEN NullIndex ELSE activeIndex
    /\ UNCHANGED isHovering
    /\ PieInteraction("globalUp")

\* Mutant of PieUnmount: the interval is left armed.
PieUnmountKeepsInterval ==
    /\ piePhase = "live"
    /\ piePhase' = "unmounted"
    /\ pieListeners' = FALSE
    /\ pieOp' = "unmount"
    /\ UNCHANGED <<slices, total, pieLoading, pieError, activeIndex, isHovering,
                   isPressing, previousDataRef, pieInterval, pieInflight,
                   pieIssued, pieLast>>

\* The chart unmounts: the cleanups of the two effects.
PieUnmount ==
    /\ piePhase = "live"
    /\ piePhase' = "unmounted"
    /\ pieInterval' = FALSE
    /\ pieListeners' = FALSE
    /\ pieOp' = "unmount"
    /\ UNCHANGED <<slices, total, pieLoading, pieError, activeIndex, isHovering,
                   isPressing, previousDataRef, pieInflight, pieIssued, pieLast>>

\* The chart as constructed.
PieInit ==
    /\ slices = <<>>
    /\ total = 0
    /\ pieLoading = TRUE
    /\ pieError = ""
    /\ activeIndex = NullIndex
    /\ isHovering = FALSE
    /\ isPressing = FALSE
    /\ previousDataRef = <<>>
    /\ pieInterval = FALSE
    /\ pieListeners = FALSE
    /\ piePhase = "rendered"
    /\ pieInflight = {}
    /\ pieIssued = 0
    /\ pieOp = "construct"
    /\ pieLast = [seq |-> 0, resp |-> PieResponse("object", <<>>, ""),
                  processed |-> FALSE, output |-> processPositions(<<>>),
                  committed |-> FALSE]

(***************************************************************************)
(* The dashboard: the widgets run side by side and share no state.         *)
(***************************************************************************)
TableNext ==
    \/ TableRunEffect /\ UNCHANGED nonTableVars
    \/ TableIntervalTick /\ UNCHANGED nonTableVars
    \/ /\ \E r \in tableInflight : \E resp \in TableResponses : TableDeliver(r, resp)
       /\ UNCHANGED nonTableVars
    \/ (\E term \in SearchTerms : SetSearchTerm(term)) /\ UNCHANGED nonTableVars
    \/ PrevPage /\ UNCHANGED nonTableVars
    \/ NextPage /\ UNCHANGED nonTableVars
    \/ (\E u \in Urls : ChangeUrl(u)) /\ UNCHANGED nonTableVars
    \/ TableUnmount /\ UNCHANGED nonTableVars

GraphNext ==
    \/ GraphRunEffect /\ UNCHANGED nonGraphVars
    \/ (\E tf \in Selectable : SelectTimeframe(tf)) /\ UNCHANGED nonGraphVars
    \/ GraphDebounceFire /\ UNCHANGED nonGraphVars
    \/ GraphIntervalTick /\ UNCHANGED nonGraphVars
    \/ (\E r \in graphInflight : GraphAbortSettle(r)) /\ UNCHANGED nonGraphVars
    \/ /\ \E r \in graphInflight : \E resp \in HistoryResponses : GraphDeliver(r, resp)
       /\ UNCHANGED nonGraphVars
    \/ (\E i \in 1..MaxPoints : GraphHover(i)) /\ UNCHANGED nonGraphVars
    \/ GraphHoverExit /\ UNCHANGED nonGraphVars
    \/ GraphClockAdvance /\ UNCHANGED nonGraphVars
    \/ GraphUnmount /\ UNCHANGED nonGraphVars

(***************************************************************************)
(* The pure functions called on their own, on arguments drawn from bounded *)
(* sets.                                                                   *)
(***************************************************************************)
\* The scales of the arguments: units, tens and hundreds.
DomainScales == {1, 10, 100}

DomainArgs ==
    {s * a : s \in DomainScales, a \in (0 - MaxDomainValue)..MaxDomainValue}

DomainArguments(min, max) ==
    [called |-> FALSE, min |-> min, max |-> max, result |-> AutoDomain]

\* getNiceDomain(min, max) on the arguments drawn.
DomainCall ==
    /\ ~domainCall.called
    /\ domainCall' = [domainCall EXCEPT
                          !.called = TRUE,
                          !.result = getNiceDomain(domainCall.min, domainCall.max)]

\* The market values of the points: whole dollars, a fraction of a cent, zero.
HistoryValues == {0, 90000, 100000, 100004, 110000}

HistoryPoints == {Point(ts, mv) : ts \in 1..MaxStamp, mv \in HistoryValues}

\* The arrays of points, in every order of arrival.
HistoryData == UNION {[1..n -> HistoryPoints] : n \in 0..MaxPoints}

HistoryArguments(points) ==
    [called |-> FALSE, data |-> HistoryArray(points),
     result |-> processHistoryData(HistoryNone)]

\* processHistoryData(data) on the response drawn.
HistoryCall ==
    /\ ~historyCall.called
    /\ historyCall' = [historyCall EXCEPT
                           !.called = TRUE,
                           !.result = processHistoryData(historyCall.data)]

\* The market values of the holdings: one that only reports its quantity and
\* price, one that rounds to no cent at all, some not in whole cents, and one
\* that 1000 holds exactly 2% against.
HoldingValues == {0, 4, 1000, 10004, 49000}

Holding(i, mv) ==
    IF mv = 0 THEN Position(<<"T", i>>, 0, 2, 250) ELSE Position(<<"T", i>>, mv, 0, 0)

\* The portfolios: holding i has the ticker <<"T", i>>.
Portfolios ==
    UNION {{[i \in 1..n |-> Holding(i, mvs[i])] : mvs \in [1..n -> HoldingValues]} :
              n \in 0..MaxHoldings}

PositionsArguments(positions) ==
    [called |-> FALSE, positions |-> positions, result |-> processPositions(<<>>)]

\* processPositions(positions) on the portfolio drawn.
PositionsCall ==
    /\ ~positionsCall.called
    /\ positionsCall' = [positionsCall EXCEPT
                             !.called = TRUE,
                             !.result = processPositions(positionsCall.positions)]

\* No call is under way.
CallInit ==
    /\ domainCall = DomainArguments(0, 0)
    /\ historyCall = HistoryArguments(<<>>)
    /\ positionsCall = PositionsArguments(<<>>)

PieNext ==
    \/ PieRunEffect /\ UNCHANGED nonPieVars
    \/ PieIntervalTick /\ UNCHANGED nonPieVars
    \/ /\ \E seq \in pieInflight : \E resp \in PieResponses : PieDeliver(seq, resp)
       /\ UNCHANGED nonPieVars
    \/ (\E index \in 0..(MaxHoldings - 1) : onCellEnter(index)) /\ UNCHANGED nonPieVars
    \/ (\E index \in 0..(MaxHoldings - 1) : onCellLeave(index)) /\ UNCHANGED nonPieVars
    \/ (\E index \in 0..(MaxHoldings - 1) : onCellPressStart(index))
           /\ UNCHANGED nonPieVars
    \/ (\E index \in 0..(MaxHoldings - 1) : onCellPressEnd(index))
           /\ UNCHANGED nonPieVars
    \/ handleContainerLeave /\ UNCHANGED nonPieVars
    \/ handleGlobalUp /\ UNCHANGED nonPieVars
    \/ PieUnmount /\ UNCHANGED nonPieVars

\* The arguments as processHistoryData passes them: min <= max.
DomainDrawn ==
    \E min \in DomainArgs : \E max \in DomainArgs :
        min <= max /\ domainCall = DomainArguments(min, max)

HistoryDrawn == \E points \in HistoryData : historyCall = HistoryArguments(points)

PositionsDrawn ==
    \E positions \in Portfolios : positionsCall = PositionsArguments(positions)

DomainNext == DomainCall /\ UNCHANGED <<nonCallVars, historyCall, positionsCall>>

HistoryNext == HistoryCall /\ UNCHANGED <<nonCallVars, domainCall, positionsCall>>

PositionsNext == PositionsCall /\ UNCHANGED <<nonCallVars, domainCall, historyCall>>

Init == TableInit /\ GraphInit /\ PieInit /\ CallInit

Next == TableNext \/ GraphNext \/ PieNext \/ DomainNext \/ HistoryNext \/ PositionsNext

Spec == Init /\ [][Next]_vars

\* One widget alone, the other left as constructed.
SpecTable == Init /\ [][TableNext]_vars

SpecGraph == Init /\ [][GraphNext]_vars

\* A request awaited ends: its fetch resolves or rejects, or its abort is
\* handled.
GraphSettle ==
    \E r \in graphInflight :
        \/ GraphAbortSettle(r)
        \/ \E resp \in HistoryResponses : GraphDeliver(r, resp)

\* The PortfolioGraph alone, every request ending sooner or later.
SpecGraphFair == Init /\ [][GraphNext]_vars /\ WF_vars(GraphSettle /\ UNCHANGED nonGraphVars)

\* The PortfolioDiversityChart alone.
SpecPie == Init /\ [][PieNext]_vars

\* Each widget followed alone from the dashboard as constructed: the widgets
\* share no state, so a step of one finds the others as constructed.
WidgetNext ==
    \/ GraphInit /\ PieInit /\ TableNext
    \/ TableInit /\ PieInit /\ GraphNext
    \/ TableInit /\ GraphInit /\ PieNext

SpecWidgets == Init /\ [][WidgetNext]_vars

\* The PortfolioGraph alone, mounted over the storage of an earlier visit.
StoredInit == TableInit /\ GraphInitStored /\ PieInit /\ CallInit

SpecGraphStored == StoredInit /\ [][GraphNext]_vars

\* getNiceDomain alone, about to be called on the arguments drawn.
DomainInit ==
    /\ TableInit /\ GraphInit /\ PieInit /\ DomainDrawn
    /\ historyCall = HistoryArguments(<<>>)
    /\ positionsCall = PositionsArguments(<<>>)

SpecDomain == DomainInit /\ [][DomainNext]_vars

\* processHistoryData alone, about to be called on the response drawn.
HistoryInit ==
    /\ TableInit /\ GraphInit /\ PieInit /\ HistoryDrawn
    /\ domainCall = DomainArguments(0, 0)
    /\ positionsCall = PositionsArguments(<<>>)

SpecHistory == HistoryInit /\ [][HistoryNext]_vars

\* processPositions alone, about to be called on the portfolio drawn.
PositionsInit ==
    /\ TableInit /\ GraphInit /\ PieInit /\ PositionsDrawn
    /\ domainCall = DomainArguments(0, 0)
    /\ historyCall = HistoryArguments(<<>>)

SpecPositions == PositionsInit /\ [][PositionsNext]_vars

(***************************************************************************)
(* Properties of the Table                                                 *)
(***************************************************************************)

\* The last event is a response (or failure) of a fetch of the live effect.
TableApplied == tableLast.op = "deliver" /\ tableLast.mounted

\* C3: overlapping fetches are not guarded: an array response that arrives
\* after the response of a later-issued fetch was applied is applied all the
\* same, so the table then holds the older rows.
C3_StaleResponseOverwrites ==
    (/\ TableApplied
     /\ tableLast.resp.kind = "array"
     /\ tableLast.seq < tableNewest.seq)
        => data = tableLast.resp.rows

\* C3 witness: the table shows the older response after the newer one was shown.
C3_Witness ==
    /\ TableApplied
    /\ tableLast.resp.kind = "array"
    /\ tableLast.seq < tableNewest.seq
    /\ data = tableLast.resp.rows
    /\ data # tableNewest.rows
    /\ ~loading

\* C4 (as claimed): after a fetch returned an object with an `error` field, the
\* table body displays exactly that string and no data row.
C4_ErrorStringDisplayed ==
    (TableApplied /\ tableLast.resp.kind = "object" /\ tableLast.resp.error # "")
        => /\ \E i \in DOMAIN TableBody : TableBody[i].text = tableLast.resp.error
           /\ \A i \in DOMAIN TableBody : TableBody[i].kind # "row"

\* C5: after a fetch of the live effect that ends in a failure, an {error}
\* object or any other non-array, the data is empty and the error state is
\* not; after one that returns an array, the data is that array and the error
\* state is empty.
C5_FetchOutcome ==
    TableApplied =>
        IF tableLast.resp.kind = "array"
        THEN data = tableLast.resp.rows /\ error = ""
        ELSE data = NoRows /\ error # ""

\* C5 witness: a failed fetch has cleared rows that an earlier fetch delivered.
C5_Witness ==
    /\ TableApplied
    /\ tableLast.resp.kind = "throw"
    /\ Len(tableNewest.rows) > 0
    /\ data = NoRows
    /\ error = "Failed to fetch data."

\* C7 (as claimed): after a fetch that succeeded with an empty array the table
\* does not present the failure message.
C7_EmptyIsNotAnError ==
    (TableApplied /\ tableLast.resp.kind = "array" /\ tableLast.resp.rows = NoRows)
        => \A i \in DOMAIN TableBody : TableBody[i].kind # "message"

PageInRange == 1 <= currentPage /\ currentPage <= totalPages

\* The body is the current page of the matching rows, padded to rowsPerPage.
BodyIsPaddedPage ==
    \E body \in {TableBody} : \E rows \in {filteredData} :
        LET first == (currentPage - 1) * rowsPerPage
            shown == Min2(currentPage * rowsPerPage, Len(rows)) - first
        IN /\ Len(body) = rowsPerPage
           /\ \A i \in 1..rowsPerPage :
                IF i <= shown
                THEN body[i] = BodyRow(rows[first + i])
                ELSE body[i] = BodyPad

PageButtons ==
    /\ NextDisabled <=> currentPage = totalPages
    /\ PrevDisabled <=> currentPage = 1

\* C8 (as claimed): on every page within [1, totalPages] the body is the padded
\* page and the buttons are disabled exactly at the ends.
C8_PaddedPageAlways == PageInRange => (BodyIsPaddedPage /\ PageButtons)

\* C8 (amended): the same, for the body, whenever the table is not loading and
\* holds at least one row; for the buttons, always.
C8_PaddedPageWhenRows ==
    PageInRange =>
        /\ PageButtons
        /\ (~loading /\ Len(data) > 0) => BodyIsPaddedPage

\* C8 witness: the last page of MaxRows matching rows, short of a full page.
C8_Witness ==
    /\ ~loading
    /\ Len(filteredData) = MaxRows
    /\ currentPage = totalPages
    /\ currentPage > 1
    /\ MaxRows % rowsPerPage # 0
    /\ TableBody[MaxRows % rowsPerPage].kind = "row"
    /\ TableBody[(MaxRows % rowsPerPage) + 1].kind = "pad"
    /\ NextDisabled

\* C9: a click on "previous" or "next" made with the current page within
\* [1, totalPages] leaves it within [1, totalPages].
C9_ClicksStayInRange ==
    [][(tableLast'.op \in {"prev", "next"} /\ PageInRange) => PageInRange']_vars

\* C9 witness: "next" has been clicked up to the last of several pages.
C9_Witness ==
    /\ tableLast.op = "next"
    /\ currentPage = totalPages
    /\ totalPages > 1

\* C10: the loading indicator is on from the first render until the initial
\* fetch of the live effect settles, and no step that keeps the fetch URL
\* turns it on again.
C10_LoadingOnlyInitialFetch ==
    /\ [](tablePhase = "rendered" => loading)
    /\ [](tablePhase = "live" =>
            (loading <=> \E r \in tableInflight : r.mounted /\ r.showLoading))
    /\ [][(~loading /\ fetchUrl' = fetchUrl) => ~loading']_vars

\* C10 witness: a background refresh is in flight and the indicator is off.
C10_Witness ==
    /\ tablePhase = "live"
    /\ ~loading
    /\ tableLast.op = "tick"
    /\ \E r \in tableInflight : r.mounted /\ ~r.showLoading

(***************************************************************************)
(* Properties of the PortfolioGraph                                        *)
(***************************************************************************)

\* C1: the end of a request issued for another timeframe than the selected
\* one never changes the displayed series, value, change or domain; every
\* request and every pending 50 ms timer that is not cancelled belongs to the
\* selected timeframe.
C1_NoResponseOfOtherTimeframe ==
    /\ [](\A r \in graphInflight : ~r.aborted => r.tf = timeframe)
    /\ [](debounceRef.pending => debounceRef.tf = timeframe)
    /\ [][(/\ graphLast' # graphLast
           /\ graphLast'.op \in {"deliver", "aborted"}
           /\ graphLast'.tf # timeframe)
            => Displayed' = Displayed]_vars

\* C1 witness: a request issued for one timeframe has ended cancelled after
\* another timeframe was selected.
C1_Witness ==
    /\ graphLast.op = "aborted"
    /\ graphLast.tf # graphLast.selected
    /\ graphLast.tf # timeframe

\* C2: at most one request that is not cancelled is in flight, and the end of
\* a cancelled request changes neither the displayed state nor the cache.
C2_OneLiveRequest ==
    /\ [](Cardinality({r \in graphInflight : ~r.aborted}) <= 1)
    /\ [][(graphLast'.op = "aborted" /\ graphLast' # graphLast)
            => (Displayed' = Displayed /\ localStorage' = localStorage)]_vars

\* C2 witness: a request superseded by the 30 s tick has ended cancelled while
\* its successor is in flight.
C2_Witness ==
    /\ graphLast.op = "aborted"
    /\ graphLast.tf = timeframe
    /\ \E r \in graphInflight : ~r.aborted /\ r.id > graphLast.id

\* C6 (as claimed): after the history endpoint returned an object with an
\* `error` string, that string is among the texts the widget renders.
C6_ErrorMessageRendered ==
    (graphLast.op = "deliver" /\ graphLast.resp.kind = "object")
        => graphLast.resp.error \in GraphTexts

(***************************************************************************)
(* Properties of getNiceDomain                                             *)
(***************************************************************************)
PowersOfTen == {1, 10, 100, 1000, 10000, 100000}

\* C11: for min < max the bounds enclose the range, lower <= min and
\* max <= upper, and both are whole multiples of one step k * 10^e with k a
\* whole number from 1 to 10, so is their difference; four such steps span
\* at least the range.
C11_NiceDomainEncloses ==
    (domainCall.called /\ domainCall.min < domainCall.max) =>
        LET r == domainCall.result
            range == (domainCall.max - domainCall.min) * r.den
        IN /\ ~r.auto
           /\ r.lo <= domainCall.min * r.den
           /\ r.hi >= domainCall.max * r.den
           /\ \E k \in 1..10 : \E p \in PowersOfTen :
                  /\ 4 * (k * p) >= range
                  /\ r.lo % (k * p) = 0
                  /\ r.hi % (k * p) = 0
                  /\ (r.hi - r.lo) % (k * p) = 0

\* C11 witness: a range with a negative minimum whose bounds both moved
\* outwards, in steps that are not a power of ten.
C11_Witness ==
    /\ domainCall.called
    /\ domainCall.min < 0
    /\ domainCall.max > 0
    /\ domainCall.result.lo < domainCall.min * domainCall.result.den
    /\ domainCall.result.hi > domainCall.max * domainCall.result.den
    /\ \A p \in PowersOfTen :
           4 * p >= (domainCall.max - domainCall.min) * domainCall.result.den
               => domainCall.result.lo % p # 0

(***************************************************************************)
(* Properties of processHistoryData                                        *)
(***************************************************************************)
\* processHistoryData was called on an array with at least one point.
HistoryProcessed == historyCall.called /\ Len(historyCall.data.points) > 0

\* The market value of a point of greatest (least) timestamp that the call
\* took for the latest (first) one.
LatestOf(points, value) ==
    \E i \in 1..Len(points) :
        /\ points[i].market_value = value
        /\ \A j \in 1..Len(points) : points[j].timestamp <= points[i].timestamp

FirstOf(points, value) ==
    \E i \in 1..Len(points) :
        /\ points[i].market_value = value
        /\ \A j \in 1..Len(points) : points[j].timestamp >= points[i].timestamp

\* The timestamps of the points differ from one another.
DistinctStamps(points) ==
    \A i, j \in 1..Len(points) :
        points[i].timestamp = points[j].timestamp => i = j

\* C12 as stated: the current value is that of the point of greatest
\* timestamp and the change is exactly that value minus the value of the
\* point of least timestamp, whatever the order of arrival.
C12_ChangeIsLastMinusFirst ==
    (HistoryProcessed /\ DistinctStamps(historyCall.data.points)) =>
        LET r == historyCall.result
        IN /\ LatestOf(historyCall.data.points, r.portfolioValue)
           /\ FirstOf(historyCall.data.points, r.history[1].market_value)
           /\ r.change = r.portfolioValue - r.history[1].market_value

\* C12 amended: the current value is that of the point of greatest
\* timestamp; the change is that value minus the value of the point of least
\* timestamp, rounded to whole cents; with a first value other than zero the
\* percent is change / first * 100 to the nearest hundredth, whatever the
\* order of arrival.
C12_ChangeRoundedToCents ==
    (HistoryProcessed /\ DistinctStamps(historyCall.data.points)) =>
        LET r == historyCall.result
            first == r.history[1].market_value
            pct == percentChangeOf(r.change, r.history)
        IN /\ LatestOf(historyCall.data.points, r.portfolioValue)
           /\ FirstOf(historyCall.data.points, first)
           /\ r.change % 10 = 0
           /\ Abs(r.change - (r.portfolioValue - first)) <= 5
           /\ first # 0 =>
                  /\ pct.text = "number"
                  /\ 2 * Abs(pct.hundredths * first - r.change * 10000) <= Abs(first)

\* C12 witness: 110, 100, 90 dollars arriving second point first give the
\* value 90, the change -10 and -10.00 percent.
C12_Witness ==
    /\ historyCall.called
    /\ historyCall.data.points = SeriesLoss
    /\ historyCall.result.portfolioValue = 90000
    /\ historyCall.result.change = 0 - 10000
    /\ percentChangeOf(historyCall.result.change, historyCall.result.history)
           = [text |-> "number", hundredths |-> 0 - 1000]

(***************************************************************************)
(* Properties of the PortfolioGraph: trend, hover, failures, cache         *)
(***************************************************************************)
\* C13: the line and the fill of a series are in the gain colours exactly
\* when its last value is at least its first, and in the loss colours
\* otherwise; a series of one point has last = first.
C13_GainPaletteIffLastAtLeastFirst ==
    Len(history) > 0 =>
        IF history[Len(history)].market_value >= history[1].market_value
        THEN AreaStroke = "#16a34a" /\ AreaFill = "#16a34a33"
        ELSE AreaStroke = "#dc2626" /\ AreaFill = "#dc262633"

\* The last step was the pointer coming onto a point or leaving the chart.
HoverStep ==
    graphLast' # graphLast /\ graphLast'.op \in {"hover", "leave"}

\* C14: hovering a point or leaving the chart changes neither the series, the
\* value and change of the latest point, the axis domain nor the cache; and
\* whenever no point is hovered the value and the change displayed are those
\* of the latest point.
C14_HoverLeavesSeriesAlone ==
    /\ [](tooltip = 0 => (displayValue = portfolioValue /\ displayChange = change))
    /\ [][HoverStep => (Displayed' = Displayed /\ localStorage' = localStorage)]_vars

\* C14 witness: the pointer left the chart after hovering a point whose value
\* is not the latest one, and the header shows the latest point again.
C14_Witness ==
    /\ graphLast.op = "leave"
    /\ tooltip = 0
    /\ Len(history) = 3
    /\ portfolioValue # history[1].market_value
    /\ displayValue = portfolioValue
    /\ displayChange = change

\* The last step ended a request in a failure (the fetch or res.json()
\* rejected) or in its cancellation.
FailedOrCancelled(e) ==
    \/ e.op = "aborted"
    \/ e.op = "deliver" /\ e.resp.kind = "throw"

\* C15: a request that fails or is cancelled leaves the series, the value, the
\* change, the domain and every cache entry as they were and only clears the
\* loading indicator; the cancellation is not logged as an error.
C15_FailureLeavesStateAlone ==
    [][(graphLast' # graphLast /\ FailedOrCancelled(graphLast')) =>
          /\ Displayed' = Displayed
          /\ localStorage' = localStorage
          /\ UNCHANGED <<timeframe, tooltip, hoveredValue, hoveredChange>>
          /\ ~graphLoading'
          /\ graphLast'.op = "aborted" => ~graphLast'.logged]_vars

\* C15 witness: a request was cancelled while a series was shown and cached.
C15_Witness ==
    /\ graphLast.op = "aborted"
    /\ Len(history) > 0
    /\ localStorage[getCacheKey(graphLast.tf)].present
    /\ ~graphLoading

\* The steps that check the cache: the effect (on mount and on a timeframe
\* change) and the start of a fetch.
CacheCheckStep ==
    graphLast' # graphLast /\ graphLast'.op \in {"effect", "select", "debounce", "tick"}

\* The time to live of the check of such a step.
CheckTtl(e) == IF e.op \in {"effect", "select"} THEN 300000 ELSE 120000

\* The entry parses and is younger than ttl.
Fresh(entry, ttl) ==
    /\ entry.present
    /\ entry.data.kind # "unparsable"
    /\ now - entry.timestamp < ttl

\* C16: a cached entry is rendered only while its age is below the time to
\* live of the call site, 5 minutes in the effect and 2 minutes at the start
\* of a fetch; an entry at or beyond it, or one that does not parse, leaves
\* the displayed state as it was.
C16_CacheRenderedWhileFresh ==
    [][CacheCheckStep =>
          LET entry == localStorage[getCacheKey(graphLast'.tf)]
          IN /\ localStorage' = localStorage
             /\ IF Fresh(entry, CheckTtl(graphLast'))
                THEN Displayed' \in {Displayed, processHistoryData(entry.data)}
                ELSE Displayed' = Displayed
             /\ (Fresh(entry, 300000) /\ graphLast'.op \in {"effect", "select"})
                    => Displayed' = processHistoryData(entry.data)]_vars

\* C16 witness: a timeframe was selected whose entry is exactly 5 minutes old,
\* and the series of another timeframe stays displayed.
C16_Witness ==
    /\ graphLast.op = "select"
    /\ localStorage[getCacheKey(timeframe)].present
    /\ now - localStorage[getCacheKey(timeframe)].timestamp = 300000
    /\ Len(localStorage[getCacheKey(timeframe)].data.points) = 1
    /\ Len(history) = 3

\* The requests awaiting their response that were not cancelled.
LiveRequests == {r \in graphInflight : ~r.aborted}

\* C17: while the 50 ms timer is pending, changing the timeframe sends no
\* request and re-arms the timer for the timeframe selected; when the timer
\* fires, exactly one request is sent, for the timeframe selected last.
C17_DebounceSendsOneRequest ==
    /\ [](debounceRef.pending => debounceRef.tf = timeframe)
    /\ [][(graphLast' # graphLast /\ graphLast'.op = "select") =>
              /\ graphIssued' = graphIssued
              /\ LiveRequests' = {}
              /\ debounceRef'.pending]_vars
    /\ [][(graphLast' # graphLast /\ graphLast'.op = "debounce") =>
              /\ graphIssued' = graphIssued + 1
              /\ ~debounceRef'.pending
              /\ LiveRequests' =
                     {GraphRequest(graphIssued', timeframe', debounceRef.spinner)}]_vars

\* C17 witness: the timer armed on mount for the first timeframe was cleared
\* by a selection before it fired: the first request ever sent is the one for
\* the timeframe selected last.
C17_Witness ==
    /\ graphLast.op = "debounce"
    /\ graphIssued = 1
    /\ timeframe = TIMEFRAMES[2]
    /\ LiveRequests = {GraphRequest(1, TIMEFRAMES[2], TRUE)}

\* The last step received and parsed the response of a request.
ParsedStep ==
    /\ graphLast' # graphLast
    /\ graphLast'.op = "deliver"
    /\ graphLast'.resp.kind # "throw"

\* C18: a response received and parsed for a timeframe, which is then the
\* selected one, is stored with the current time under the key
\* portfolio_history_<span>_<interval> of that timeframe and no other entry
\* changes; no other step writes the cache.
C18_ResponseStoredUnderItsKey ==
    [][IF ParsedStep
       THEN LET tf == graphLast'.tf
                key == <<"portfolio_history", tf.span, tf.interval>>
            IN /\ tf = timeframe
               /\ localStorage'[key] =
                      [present |-> TRUE, data |-> graphLast'.resp, timestamp |-> now]
               /\ \A k \in CacheKeys \ {key} : localStorage'[k] = localStorage[k]
       ELSE localStorage' = localStorage]_vars

\* C18 witness: a response for the second timeframe was stored at a later
\* instant beside the entry of the first timeframe.
C18_Witness ==
    /\ graphLast.op = "deliver"
    /\ graphLast.tf = TIMEFRAMES[2]
    /\ now > 0
    /\ localStorage[<<"portfolio_history", "week", "hour">>] =
           [present |-> TRUE, data |-> graphLast.resp, timestamp |-> now]
    /\ localStorage[<<"portfolio_history", "day", "5minute">>].present
    /\ localStorage[<<"portfolio_history", "day", "5minute">>].timestamp < now

\* Request `id` awaits its end.
Awaited(id) == \E r \in graphInflight : r.id = id

\* The last step ended request `id`.
Ended(id) ==
    /\ graphLast' # graphLast
    /\ graphLast'.op \in {"deliver", "aborted"}
    /\ graphLast'.id = id

\* C19: a request leaves the requests awaited by one step only, its success,
\* its failure or its cancellation, and that step clears the loading
\* indicator; every request ending sooner or later, a loading indicator that
\* is on goes off.
C19_LoadingEventuallyCleared ==
    /\ [][\A id \in 1..MaxGraphFetches :
              /\ (Awaited(id) /\ ~Awaited(id)') => Ended(id)
              /\ Ended(id) => (Awaited(id) /\ ~Awaited(id)' /\ ~graphLoading')
              /\ ~Awaited(id) /\ Awaited(id)' => id = graphIssued']_vars
    /\ graphLoading ~> ~graphLoading

\* C19 witness: the request that turned the loading indicator on was
\* cancelled by a timeframe change, and the indicator is off.
C19_Witness ==
    /\ graphLast.op = "aborted"
    /\ graphLast.tf # timeframe
    /\ graphLast.id = 1
    /\ ~graphLoading
    /\ graphInflight = {}

(***************************************************************************)
(* Properties of processPositions                                          *)
(***************************************************************************)
RECURSIVE SumOfSlices(_)
SumOfSlices(s) == IF s = <<>> THEN 0 ELSE s[1].value + SumOfSlices(Tail(s))

RECURSIVE SumOfHoldings(_)
\* The market values as the response gives them.
SumOfHoldings(positions) ==
    IF positions = <<>> THEN 0
    ELSE (IF positions[1].market_value # 0 THEN positions[1].market_value
          ELSE positions[1].quantity * positions[1].current_price)
             + SumOfHoldings(Tail(positions))

\* C20: the values of the slices emitted, "Other" included, add up to the
\* market values of the holdings given, within one cent.
C20_SlicesSumToHoldings ==
    positionsCall.called =>
        Abs(SumOfSlices(positionsCall.result.slices)
                - SumOfHoldings(positionsCall.positions)) <= 10

(***************************************************************************)
(* Properties of the Table: page range, responses of a cleaned-up effect   *)
(***************************************************************************)
\* C29: the current page stays within 1..totalPages in every reachable state,
\* whatever the poll results, the search terms and the page clicks.
C29_PageAlwaysInRange == 1 <= currentPage /\ currentPage <= totalPages

\* The last step settled a fetch of an effect already cleaned up (the Table
\* unmounted or its fetchUrl changed after the fetch was issued).
StaleTableStep ==
    /\ tableLast' # tableLast
    /\ tableLast'.op = "deliver"
    /\ ~tableLast'.mounted

\* C30: the response or the failure of a fetch issued before the Table
\* unmounted or before its fetchUrl changed changes neither the data, nor the
\* error, nor the loading state.
C30_StaleFetchNotApplied ==
    [][StaleTableStep => UNCHANGED <<data, error, loading, currentPage, searchTerm>>]_vars

\* C30 witness: the first fetch, which turned the loader on, is answered with
\* rows after the fetchUrl changed; the table still holds no row and the
\* loader of the new fetch is still on.
C30_Witness ==
    /\ tableLast.op = "deliver"
    /\ ~tableLast.mounted
    /\ tableLast.seq = 1
    /\ tableLast.resp.kind = "array"
    /\ Len(tableLast.resp.rows) > 0
    /\ tablePhase = "live"
    /\ data = NoRows
    /\ loading

\* The slices and the total of the call, and the holdings as normalized.
CallSlices == positionsCall.result.slices

CallHoldings ==
    [i \in 1..Len(positionsCall.positions) |-> Normalize(positionsCall.positions[i])]

CallTotal == SumValues(CallHoldings)

OtherIndices == {i \in 1..Len(CallSlices) : CallSlices[i].isOther}

\* C21: the slices not marked "Other" are in descending order of value, at
\* most one slice is marked "Other", and an "Other" slice is the last one.
C21_SortedWithOtherLast ==
    positionsCall.called =>
        /\ \A i \in 1..Len(CallSlices) : \A j \in 1..Len(CallSlices) :
               (i < j /\ ~CallSlices[i].isOther /\ ~CallSlices[j].isOther)
                   => CallSlices[i].value >= CallSlices[j].value
        /\ Cardinality(OtherIndices) <= 1
        /\ OtherIndices \subseteq {Len(CallSlices)}

\* C21 witness: holdings that arrive in ascending order come out as two
\* slices of their own in descending order, followed by "Other".
C21_Witness ==
    /\ positionsCall.called
    /\ Len(positionsCall.positions) = 3
    /\ CallHoldings[1].market_value < CallHoldings[2].market_value
    /\ CallHoldings[2].market_value < CallHoldings[3].market_value
    /\ Len(CallSlices) = 3
    /\ CallSlices[1].value > CallSlices[2].value
    /\ OtherIndices = {3}

\* The holdings with a slice of their own, by ticker, and the holdings whose
\* share of the total is at least the threshold (no share is, of a total of
\* zero: the quotient is not a number).
OwnSlice == {CallSlices[i].name : i \in 1..Len(CallSlices) \ OtherIndices}

AtLeastThreshold ==
    {CallHoldings[i].ticker :
        i \in {k \in 1..Len(CallHoldings) :
                  /\ CallTotal # 0
                  /\ CallHoldings[k].market_value * 100 >= othersThreshold * CallTotal}}

RECURSIVE SumOfMerged(_)
\* The sum of the values of the holdings under the threshold.
SumOfMerged(holdings) ==
    IF holdings = <<>> THEN 0
    ELSE (IF Head(holdings).ticker \in AtLeastThreshold
          THEN 0 ELSE Head(holdings).market_value)
             + SumOfMerged(Tail(holdings))

\* C22: a holding has a slice of its own
\* exactly when its share of the total is at least the threshold, with its
\* own value; the other holdings make one "Other" slice worth their sum, which
\* is left out exactly when that sum is zero.
C22_OwnSliceIffAtLeastThreshold ==
    positionsCall.called =>
        /\ OwnSlice = AtLeastThreshold
        /\ Len(CallSlices) = Cardinality(AtLeastThreshold) + Cardinality(OtherIndices)
        /\ \A i \in 1..Len(CallSlices) \ OtherIndices :
               \E k \in 1..Len(CallHoldings) :
                   /\ CallHoldings[k].ticker = CallSlices[i].name
                   /\ CallHoldings[k].market_value = CallSlices[i].value
        /\ \A i \in OtherIndices :
               CallSlices[i].value = ToFixed2(SumOfMerged(CallHoldings))
        /\ (OtherIndices = {}) <=> (SumOfMerged(CallHoldings) = 0)

\* C22 witness: one holding is exactly 2% of the total and has its own
\* slice; one holding is worth nothing and is merged, and "Other" is left out.
C22_Witness ==
    /\ positionsCall.called
    /\ Len(CallHoldings) = 3
    /\ CallTotal = 50000
    /\ \E k \in 1..3 : CallHoldings[k].market_value = 1000
                            /\ CallHoldings[k].ticker \in OwnSlice
    /\ \E k \in 1..3 : CallHoldings[k].market_value = 0
                            /\ CallHoldings[k].ticker \notin OwnSlice
    /\ OtherIndices = {}

(***************************************************************************)
(* Properties of the PortfolioDiversityChart                               *)
(***************************************************************************)
\* A response with holdings has just been processed by the mounted chart.
ProcessedStep ==
    /\ pieLast' # pieLast
    /\ pieLast'.processed
    /\ piePhase = "live"

\* C23: when a fetch aggregates to the same slices and total as the fetch
\* processed just before it, it commits no slice or total state (setSlices
\* and setTotal are not called, so nothing re-renders), whatever the holdings.
C23_IdenticalOutputNotCommitted ==
    [][(ProcessedStep /\ pieLast.processed /\ pieLast'.output = pieLast.output)
           => ~pieLast'.committed]_vars

\* C27: after a holdings response is processed, the slices and the total held
\* are the aggregation of that response.
C27_StateIsAggregationOfResponse ==
    [][ProcessedStep
           => (slices' = pieLast'.output.slices /\ total' = pieLast'.output.total)]_vars

\* The window-level release has just been handled.
GlobalUpStep == pieOp' = "globalUp"

\* C24: a pointer-up, touch-end, touch-cancel or click on the window leaves
\* pressing false, clears the active index unless a slice is hovered, and
\* changes neither the hovering flag nor the slices and total.
C24_GlobalReleaseClearsPress ==
    [][GlobalUpStep =>
           /\ ~isPressing'
           /\ activeIndex' = (IF isHovering THEN activeIndex ELSE NullIndex)
           /\ UNCHANGED <<isHovering, slices, total, pieError, pieLoading>>]_vars

\* C24 witness: the release came while a slice was both hovered and
\* pressed: pressing is off and the hovered slice is still the active one.
C24_Witness ==
    /\ pieOp = "globalUp"
    /\ isHovering
    /\ ~isPressing
    /\ activeIndex = 1
    /\ CenterOverlayShown

\* C28: the active index is set whenever the chart is hovered or pressed,
\* so that the rendered chart shows the center overlay for the slice it
\* points at, and it is null whenever the chart is neither.
C28_ActiveIffHoverOrPress ==
    /\ (isHovering \/ isPressing) <=> (activeIndex # NullIndex)
    /\ (ChartRendered /\ (isHovering \/ isPressing) /\ activeIndex < Len(slices))
           => CenterOverlayShown
    /\ activeIndex \in {NullIndex} \cup 0..(MaxHoldings - 1)

\* C28 witness: the pointer left the slice during a press: the chart is
\* pressed, not hovered, and the overlay of the pressed slice is shown.
C28_Witness ==
    /\ pieOp = "leave"
    /\ isPressing
    /\ ~isHovering
    /\ activeIndex = 0
    /\ CenterOverlayShown

\* The mounted chart has just settled a fetch.
PieSettleStep == pieLast' # pieLast /\ piePhase = "live"

\* C25: after a failed fetch (transport failure, status not ok, or an
\* { error } response) the chart is not rendered and the error message is
\* shown in its place; after a successful fetch of holdings without value the
\* "No holdings to display" state is shown, with no error message.
C25_ErrorOrNoHoldingsShown ==
    [][PieSettleStep =>
           /\ pieLast'.resp.kind = "throw"
                  => (~ChartRendered' /\ ChartEmptyText' = "Failed to fetch portfolio.")
           /\ pieLast'.resp.kind = "error"
                  => (~ChartRendered' /\ ChartEmptyText' = pieLast'.resp.error)
           /\ (pieLast'.processed /\ pieLast'.output.total = 0)
                  => (pieError' = "" /\ ChartEmptyText' = "No holdings to display")]_vars

(***************************************************************************)
(* Properties of the three widgets: unmount                                *)
(***************************************************************************)
\* C26: once a widget has unmounted it issues no further fetch, and none of
\* its timers and listeners is left to fire: the Table's and the chart's
\* polling intervals, the PortfolioGraph's interval and debounce timer, the
\* PortfolioDiversityChart's interval and window listeners.
C26_UnmountReleasesTimers ==
    [][/\ tablePhase' = "unmounted"
           => (tableIssued' = tableIssued /\ tableLast'.op \in {"unmount", "deliver"})
       /\ graphPhase' = "unmounted"
           => /\ graphIssued' = graphIssued
              /\ ~debounceRef'.pending
              /\ graphLast'.op \notin {"debounce", "tick", "select"}
       /\ piePhase' = "unmounted"
           => /\ pieIssued' = pieIssued
              /\ ~pieInterval' /\ ~pieListeners'
              /\ pieOp' \in {"unmount", "deliver"}]_vars

\* C26 witness: the PortfolioDiversityChart unmounted with a fetch in flight
\* and fetches left to issue; the fetch has settled since, and no interval or
\* listener is left.
C26_Witness ==
    /\ piePhase = "unmounted"
    /\ pieOp = "deliver"
    /\ pieIssued = 1
    /\ pieInflight = {}
    /\ ~pieInterval
    /\ ~pieListeners

====
